---- MODULE Spec2Model ----
(***************************************************************************)
(* Model of tasks/localeapp.js (grunt-localeapp): the grunt multi-task     *)
(* that pulls locale files with the localeapp gem, reformats them and      *)
(* copies them to a destination directory.                                 *)
(*                                                                         *)
(* The task body is synchronous, but fs.mkdir and fs.rename are the        *)
(* asynchronous variants: the call only queues the operation, which the    *)
(* runtime's thread pool performs at some later moment.  The model keeps   *)
(* the queued operations in `pending` and lets each of them take effect    *)
(* between any two synchronous steps of the task.                          *)
(***************************************************************************)
EXTENDS Integers, Sequences, FiniteSets, TLC

(***************************************************************************)
(* Bounds of the model.                                                    *)
(***************************************************************************)
\* the largest number of locale files one `localeapp pull` downloads
MaxFiles == 2
\* nesting depth and mapping/array width of the documents given to _countEntries
MaxDepth == 2
MaxKeys == 2

(***************************************************************************)
(* JavaScript strings.  TLC strings support Len, \o and SubSeq.            *)
(***************************************************************************)
Min(S) == CHOOSE x \in S : \A y \in S : x <= y

\* s.indexOf(pat) + 1 (0 when pat does not occur)
IndexOf(s, pat) ==
    LET cand == { k \in 1..(Len(s) - Len(pat) + 1) : SubSeq(s, k, k + Len(pat) - 1) = pat }
    IN  IF cand = {} THEN 0 ELSE Min(cand)

\* s.replace(pat, rep) with a string pattern: only the first occurrence
ReplaceFirst(s, pat, rep) ==
    LET k == IndexOf(s, pat)
    IN  IF k = 0 THEN s
        ELSE SubSeq(s, 1, k - 1) \o rep \o SubSeq(s, k + Len(pat), Len(s))

\* s.split(sep)[0]
SplitFirst(s, sep) ==
    LET k == IndexOf(s, sep)
    IN  IF k = 0 THEN s ELSE SubSeq(s, 1, k - 1)

\* s.slice(0, e)
Slice0(s, e) ==
    LET end == IF e < 0 THEN (IF Len(s) + e < 0 THEN 0 ELSE Len(s) + e)
                        ELSE (IF e > Len(s) THEN Len(s) ELSE e)
    IN  SubSeq(s, 1, end)

(***************************************************************************)
(* JavaScript values, as yaml.load / grunt.file.readYAML return them.      *)
(* A mapping keeps its keys in insertion order, as a JS object does.       *)
(***************************************************************************)
Undefined == [t |-> "undefined"]
Null == [t |-> "null"]
Num(n) == [t |-> "num", n |-> n]
Str(s) == [t |-> "str", s |-> s]
Map(kv) == [t |-> "map", kv |-> kv]
Arr(el) == [t |-> "arr", el |-> el]

\* typeof v
TypeOf(v) ==
    CASE v.t = "undefined" -> "undefined"
      [] v.t = "str" -> "string"
      [] v.t = "num" -> "number"
      [] OTHER -> "object"

\* the own enumerable properties of v, in for-in order, as <<name, value>> pairs
IndexName(k) == SubSeq("0123456789", k, k)
OwnProperties(v) ==
    CASE v.t = "map" -> v.kv
      [] v.t = "arr" -> [k \in 1..Len(v.el) |-> <<IndexName(k), v.el[k]>>]
      [] OTHER -> <<>>

\* obj[key]
Get(obj, key) ==
    LET hit == { k \in 1..Len(OwnProperties(obj)) : OwnProperties(obj)[k][1] = key }
    IN  IF hit = {} THEN Undefined ELSE OwnProperties(obj)[Min(hit)][2]

\* obj[key] = val on a mapping
Put(obj, key, val) ==
    LET hit == { k \in 1..Len(obj.kv) : obj.kv[k][1] = key }
    IN  IF hit = {} THEN Map(Append(obj.kv, <<key, val>>))
        ELSE Map([obj.kv EXCEPT ![Min(hit)] = <<key, val>>])

(***************************************************************************)
(* _countEntries (lines 126-142).                                          *)
(***************************************************************************)
\* iterate(obj, stack): the property paths it pushes, in order
RECURSIVE iterate(_, _)
iterate(obj, stack) ==
    LET props == OwnProperties(obj)
        pushed[k \in 0..Len(props)] ==
            IF k = 0 THEN <<>>
            ELSE pushed[k - 1] \o
                 (IF TypeOf(props[k][2]) = "object"
                  THEN iterate(props[k][2], stack \o "." \o props[k][1])
                  ELSE << stack \o "." \o props[k][1] >>)
    IN  pushed[Len(props)]

\* _countEntries on the document grunt.file.readYAML loaded
countEntries(document) == Len(iterate(document, ""))

(***************************************************************************)
(* The documents given to _countEntries: nested mappings (and arrays) of   *)
(* depth at most MaxDepth with at most MaxKeys keys, scalar or empty       *)
(* (null) leaves.                                                          *)
(***************************************************************************)
KeyNames == {"a", "b"}

KeyValueSeqs(V) ==
    UNION { { kv \in [1..n -> KeyNames \X V] :
                \A i, j \in 1..n : i # j => kv[i][1] # kv[j][1] } : n \in 0..MaxKeys }

RECURSIVE Values(_)
Values(d) ==
    IF d = 0 THEN {Str("x"), Null}
    ELSE LET V == Values(d - 1)
         IN  V \cup { Map(kv) : kv \in KeyValueSeqs(V) }
               \cup { Arr(el) : el \in UNION { [1..n -> V] : n \in 0..1 } }

Documents(d) == { Map(kv) : kv \in KeyValueSeqs(Values(d - 1)) }

(***************************************************************************)
(* The pipeline's inputs and its collaborators' outputs.                   *)
(***************************************************************************)
\* this.data.format: the four supported formats and an unsupported one
Formats == {"yml", "yaml", "json", "js", "xml"}
\* this.data.key
ProjectKey == "k3y"
\* what `localeapp -v` may print: the version line, or nothing (no gem)
VersionOutputs == {"localeapp version 0.8.0\n", ""}
\* what `localeapp install <key>` may print
InstallOutputs == {"error: bad key\n", "error", "Error: bad key\n", "erro", "Success!\n"}
\* the locale codes `localeapp pull` may download
LocaleCodes == {"en-US", "fr", "zh-Hans-CN"}
\* the translations found under a file's locale-code key
SubDocuments ==
    { Map(<< <<"hello", Str("Hi")>> >>),
      Map(<< <<"hello", Str("Hi")>>, <<"menu", Map(<< <<"quit", Str("Quit")>> >>)>> >>) }
\* <<polled_at, updated_at>> of the pull log, Unix epoch seconds
PullTimes == { <<86400, 86400>>, <<172800, 86400>> }

LocalesPath == "config/locales/"
BaseName(path) == SubSeq(path, Len(LocalesPath) + 1, Len(path))

(***************************************************************************)
(* File contents.  A text is kept as the document it parses to, with the   *)
(* literal text that precedes and follows it.                              *)
(***************************************************************************)
NoFile == [fmt |-> "none"]
EmptyFile == [fmt |-> "empty"]
EmptyDir == [n \in {} |-> NoFile]

\* a pulled <locale>.yml: one top-level key, the locale code
YamlFile(locale, sub) ==
    [fmt |-> "yml", pre |-> "", doc |-> Map(<< <<locale, sub>> >>), post |-> ""]
\* log/localeapp.yml after a pull
LogFile(polled, updated) ==
    [fmt |-> "yml", pre |-> "",
     doc |-> Map(<< <<"polled_at", Num(polled)>>, <<"updated_at", Num(updated)>> >>),
     post |-> ""]

\* JSON.stringify(v, null, 2), as the value the text parses back to:
\* properties whose value is undefined are left out
RECURSIVE Stringify(_)
Stringify(v) ==
    CASE v.t = "map" ->
           LET keep == SelectSeq(v.kv, LAMBDA e : e[2] # Undefined)
           IN  Map([k \in 1..Len(keep) |-> <<keep[k][1], Stringify(keep[k][2])>>])
      [] v.t = "arr" ->
           Arr([k \in 1..Len(v.el) |->
                  IF v.el[k] = Undefined THEN Null ELSE Stringify(v.el[k])])
      [] OTHER -> v

\* new Date(seconds * 1000).toString()
DateString(seconds) == [t |-> "str", s |-> "Date", ms |-> seconds.n * 1000]

\* fs.readdirSync: the names of a directory, in code-unit order
Alphabet == "-.0123456789ABCDEFGHIJKLMNOPQRSTUVWXYZ_abcdefghijklmnopqrstuvwxyz"
RECURSIVE Before(_, _)
Before(a, b) ==
    IF a = "" THEN b # ""
    ELSE IF b = "" THEN FALSE
    ELSE IF SubSeq(a, 1, 1) = SubSeq(b, 1, 1)
         THEN Before(SubSeq(a, 2, Len(a)), SubSeq(b, 2, Len(b)))
         ELSE IndexOf(Alphabet, SubSeq(a, 1, 1)) < IndexOf(Alphabet, SubSeq(b, 1, 1))
RECURSIVE readdirSync(_)
readdirSync(names) ==
    IF names = {} THEN <<>>
    ELSE LET first == CHOOSE x \in names : \A y \in names \ {x} : Before(x, y)
         IN  <<first>> \o readdirSync(names \ {first})

(***************************************************************************)
(* State.                                                                  *)
(***************************************************************************)
VARIABLES
    pc,           \* position of the task body
    fatal,        \* why the task stopped: "" while it has not
    format,       \* this.data.format
    version,      \* the module-level `version`
    stdout,       \* stdout of the last external command
    calls,        \* the external commands run so far, in order
    pulled,       \* what `localeapp pull` downloaded
    pending,      \* fs.mkdir / fs.rename calls queued and not yet performed
    config,       \* ./config: "absent", "file" or "dir"
    configOther,  \* entries of ./config other than locales
    localesDir,   \* config/locales is a directory
    localeFiles,  \* the files of config/locales: name -> content
    log,          \* ./log: "absent", "file" or "dir"
    logFile,      \* log/localeapp.yml
    dest,         \* the files of this.data.dest: name -> content
    destExists,   \* this.data.dest is a directory
    files,        \* the object _getLocales returns
    i,            \* index of the running for loop
    json,         \* _formatJSON's `json`
    content,      \* _formatJSON's `content`
    filename,     \* _formatJSON's `filename`
    listing,      \* the task's `locales` (line 247)
    writes,       \* the grunt.file.write calls made so far
    doc,          \* the document given to _countEntries
    count         \* what _countEntries returned (-1: not called yet)

fsVars == <<config, configOther, localesDir, localeFiles, log, logFile, dest, destExists>>
extVars == <<stdout, calls, pulled>>
locVars == <<files, i, json, content, filename, listing, writes>>
cntVars == <<doc, count>>
vars == <<pc, fatal, format, version, pending, fsVars, extVars, locVars, cntVars>>

InitTask ==
    /\ pc = "clean1"
    /\ fatal = ""
    /\ format \in Formats
    /\ version = Undefined
    /\ stdout = ""
    /\ calls = <<>>
    /\ pulled = EmptyDir
    /\ pending = {}
    /\ config \in {"absent", "file", "dir"}
    /\ configOther \in (IF config = "dir" THEN {{}, {"database.yml"}} ELSE {{}})
    /\ localesDir \in (IF config = "dir" THEN BOOLEAN ELSE {FALSE})
    /\ localeFiles = EmptyDir
    /\ log \in {"absent", "file", "dir"}
    /\ logFile = NoFile
    /\ dest = EmptyDir
    /\ destExists \in BOOLEAN
    /\ files = [polledAt |-> Undefined, updatedAt |-> Undefined, files |-> <<>>]
    /\ i = 0
    /\ json = Undefined
    /\ content = NoFile
    /\ filename = ""
    /\ listing = <<>>
    /\ writes = <<>>

Init ==
    /\ InitTask
    /\ doc = Map(<<>>)
    /\ count = -1

(***************************************************************************)
(* Helpers of the actions.                                                 *)
(***************************************************************************)
\* grunt.fail.fatal, or an exception nobody catches: the task stops
Halt(reason) ==
    /\ pc' = "failed"
    /\ fatal' = reason

\* a slip in _clean: asking isFile where isDir is meant
isFileNotDir(state) == state = "file"
\* grunt.file.isDir
isDir(state) == state = "dir"

\* _clean(['config', 'log']) (lines 203-209): a directory is deleted with all
\* it holds, anything else is left alone
clean ==
    /\ config' = IF isDir(config) THEN "absent" ELSE config
    /\ configOther' = IF isDir(config) THEN {} ELSE configOther
    /\ localesDir' = IF isDir(config) THEN FALSE ELSE localesDir
    /\ localeFiles' = IF isDir(config) THEN EmptyDir ELSE localeFiles
    /\ log' = IF isDir(log) THEN "absent" ELSE log
    /\ logFile' = IF isDir(log) THEN NoFile ELSE logFile

\* availableFormats (line 216)
availableFormats == <<"yml", "yaml", "json", "js">>
\* a slip in the format check: indexOf(f) === 0 instead of === -1
unsupportedFirstOnly(f) == availableFormats[1] = f
\* availableFormats.indexOf(f) === -1
unsupported(f) == \A k \in 1..Len(availableFormats) : availableFormats[k] # f

\* a slip in the prefix test: slice(0,4) can never equal 'error'
keyRejectedShortSlice(out) == Slice0(out, 4) = "error"
\* log.slice(0,5) === 'error' (line 57)
keyRejected(out) == Slice0(out, 5) = "error"

\* queued asynchronous calls
Mkdir(path) == [op |-> "mkdir", path |-> path, to |-> ""]
Rename(from, to) == [op |-> "rename", path |-> from, to |-> to]

(***************************************************************************)
(* The task (lines 212-261), one action per synchronous step.              *)
(***************************************************************************)
\* line 213
PreClean ==
    /\ pc = "clean1"
    /\ clean
    /\ pc' = "check_format"
    /\ UNCHANGED <<fatal, format, version, pending, dest, destExists, extVars, locVars, cntVars>>

\* lines 216-219
CheckFormat ==
    /\ pc = "check_format"
    /\ IF unsupported(format)
       THEN Halt("format")
       ELSE pc' = "check_gem" /\ fatal' = fatal
    /\ UNCHANGED <<format, version, pending, fsVars, extVars, locVars, cntVars>>

\* _checkLocaleappGem (lines 28-41)
checkLocaleappGem ==
    /\ pc = "check_gem"
    /\ \E out \in VersionOutputs :
         /\ stdout' = out
         /\ calls' = Append(calls, "localeapp -v")
         /\ version' = Str(Slice0(out, -1))
    /\ IF version' = Undefined
       THEN Halt("gem")
       ELSE pc' = "setup" /\ fatal' = fatal
    /\ UNCHANGED <<format, pending, fsVars, pulled, locVars, cntVars>>

\* _setupProject (lines 51-64).  The gem's install may leave a ./config
\* directory behind (its initializer); it creates neither working directory.
setupProject ==
    /\ pc = "setup"
    /\ \E out \in InstallOutputs, mk \in BOOLEAN :
         /\ stdout' = out
         /\ calls' = Append(calls, "localeapp install " \o ProjectKey)
         /\ config' = IF mk /\ config = "absent" THEN "dir" ELSE config
    /\ IF keyRejected(stdout')
       THEN Halt("key")
       ELSE pc' = "mkdir_locales" /\ fatal' = fatal
    /\ UNCHANGED <<format, version, pending, configOther, localesDir, localeFiles,
                   log, logFile, dest, destExists, pulled, locVars, cntVars>>

\* _getLocales, line 79: fs.mkdir('config/locales') is only queued
getLocalesMkdirLocales ==
    /\ pc = "mkdir_locales"
    /\ pending' = pending \cup {Mkdir("config/locales")}
    /\ pc' = "mkdir_log"
    /\ UNCHANGED <<fatal, format, version, fsVars, extVars, locVars, cntVars>>

\* _getLocales, line 83: fs.mkdir('log') is only queued
getLocalesMkdirLog ==
    /\ pc = "mkdir_log"
    /\ pending' = pending \cup {Mkdir("log")}
    /\ pc' = "open_log"
    /\ UNCHANGED <<fatal, format, version, fsVars, extVars, locVars, cntVars>>

\* _getLocales, line 87: fs.openSync('log/localeapp.yml', 'w') throws unless
\* ./log is a directory by now
getLocalesOpenLog ==
    /\ pc = "open_log"
    /\ IF log = "dir"
       THEN /\ logFile' = EmptyFile
            /\ pc' = "pull"
            /\ fatal' = fatal
       ELSE /\ Halt("exception")
            /\ logFile' = logFile
    /\ UNCHANGED <<format, version, pending, config, configOther, localesDir, localeFiles,
                   log, dest, destExists, extVars, locVars, cntVars>>

\* _getLocales, line 92: `localeapp pull` writes <locale>.yml files into
\* config/locales and the poll times into the log file, where those exist
getLocalesPull ==
    /\ pc = "pull"
    /\ \E codes \in { c \in SUBSET LocaleCodes : Cardinality(c) <= MaxFiles } :
       \E sub \in SubDocuments, times \in PullTimes :
         LET got == IF localesDir
                    THEN [n \in { c \o ".yml" : c \in codes } |->
                            YamlFile(SplitFirst(n, ".yml"), sub)]
                    ELSE EmptyDir
         IN  /\ pulled' = got
             /\ localeFiles' = got @@ localeFiles
             /\ logFile' = IF log = "dir" /\ logFile # NoFile
                           THEN LogFile(times[1], times[2]) ELSE logFile
    /\ stdout' = "Localeapp Pull\n"
    /\ calls' = Append(calls, "localeapp pull")
    /\ pc' = "read_pulled"
    /\ UNCHANGED <<fatal, format, version, pending, config, configOther, localesDir,
                   log, dest, destExists, locVars, cntVars>>

\* _getLocales, lines 93-114: list the pulled files, count their entries for
\* the log line, load the pull log
getLocalesRead ==
    /\ pc = "read_pulled"
    /\ IF localesDir /\ logFile.fmt = "yml"
       THEN LET order == readdirSync(DOMAIN localeFiles) IN
              /\ \A k \in 1..Len(order) : countEntries(localeFiles[order[k]].doc) >= 0
              /\ files' = [polledAt |-> Get(logFile.doc, "polled_at"),
                           updatedAt |-> Get(logFile.doc, "updated_at"),
                           files |-> order]
              /\ i' = 1
              /\ pc' = "format"
              /\ fatal' = fatal
       ELSE /\ Halt("exception")
            /\ UNCHANGED <<files, i>>
    /\ UNCHANGED <<format, version, pending, fsVars, extVars, json, content, filename,
                   listing, writes, cntVars>>

\* the locale and path of the file the format loop is at (lines 160-161)
localeAt(k) == SplitFirst(files.files[k], ".yml")
fileAt(k) == LocalesPath \o localeAt(k)

\* lines 164-170: the text to write and the name to write it under
contentOf(toJS, locale, obj) ==
    IF toJS
    THEN [fmt |-> "js", pre |-> "var translate_" \o ReplaceFirst(locale, "-", "_") \o " = ",
          doc |-> Stringify(obj), post |-> ";"]
    ELSE [fmt |-> "json", pre |-> "", doc |-> Stringify(obj), post |-> ""]
filenameOf(toJS, file) ==
    ReplaceFirst(file, "-", "_") \o (IF toJS THEN ".js" ELSE ".json")

\* lines 178-181: json._meta = {...}
withMeta(obj) ==
    Put(obj, "_meta",
        Map(<< <<"polledAt", DateString(files.polledAt)>>,
               <<"updatedAt", DateString(files.updatedAt)>>,
               <<"gem", version>> >>))

\* _formatJSON, lines 159-174 of one iteration: load the YAML file, build the
\* text, queue the rename of the .yml file to the new name
formatJSONLoad ==
    /\ pc = "format"
    /\ format \in {"js", "json"}
    /\ i <= Len(files.files)
    /\ IF localesDir /\ files.files[i] \in DOMAIN localeFiles
       THEN /\ json' = Get(localeFiles[files.files[i]].doc, localeAt(i))
            /\ content' = contentOf(format = "js", localeAt(i), json')
            /\ filename' = filenameOf(format = "js", fileAt(i))
            /\ pending' = pending \cup {Rename(fileAt(i) \o ".yml", filename')}
            /\ pc' = "format_write"
            /\ fatal' = fatal
       ELSE /\ Halt("exception")
            /\ UNCHANGED <<json, content, filename, pending>>
    /\ UNCHANGED <<format, version, fsVars, extVars, files, i, listing, writes, cntVars>>

\* _formatJSON, lines 178-182 of one iteration: add _meta to json, then
\* grunt.file.write(filename, content)
formatJSONWrite ==
    /\ pc = "format_write"
    /\ IF json.t = "map"
       THEN /\ json' = withMeta(json)
            /\ config' = "dir"
            /\ localesDir' = TRUE
            /\ localeFiles' = (BaseName(filename) :> content) @@ localeFiles
            /\ writes' = Append(writes, [name |-> filename, content |-> content])
            /\ i' = i + 1
            /\ pc' = "format"
            /\ fatal' = fatal
       ELSE /\ Halt("exception")
            /\ UNCHANGED <<json, config, localesDir, localeFiles, writes, i>>
    /\ UNCHANGED <<format, version, pending, configOther, log, logFile, dest, destExists,
                   extVars, files, content, filename, listing, cntVars>>

\* _formatYML, lines 196-200, one iteration: queue the rename
formatYML ==
    /\ pc = "format"
    /\ format \notin {"js", "json"}
    /\ i <= Len(files.files)
    /\ pending' = pending \cup
                  {Rename(fileAt(i) \o ".yml", ReplaceFirst(fileAt(i), "-", "_") \o ".yml")}
    /\ i' = i + 1
    /\ UNCHANGED <<pc, fatal, format, version, fsVars, extVars, files, json, content,
                   filename, listing, writes, cntVars>>

\* the format loop is over: the formatter returns (lines 183, 200, 242)
formatReturn ==
    /\ pc = "format"
    /\ i > Len(files.files)
    /\ pc' = "publish_list"
    /\ UNCHANGED <<fatal, format, version, pending, fsVars, extVars, locVars, cntVars>>

\* line 247: fs.readdirSync('config/locales')
publishList ==
    /\ pc = "publish_list"
    /\ IF localesDir
       THEN /\ listing' = readdirSync(DOMAIN localeFiles)
              /\ i' = 1
              /\ pc' = "publish_copy"
              /\ fatal' = fatal
       ELSE /\ Halt("exception")
            /\ UNCHANGED <<listing, i>>
    /\ UNCHANGED <<format, version, pending, fsVars, extVars, files, json, content,
                   filename, writes, cntVars>>

\* lines 248-254, one iteration: grunt.file.copy throws when the source is gone
publishCopy ==
    /\ pc = "publish_copy"
    /\ i <= Len(listing)
    /\ IF localesDir /\ listing[i] \in DOMAIN localeFiles
       THEN /\ dest' = (listing[i] :> localeFiles[listing[i]]) @@ dest
            /\ destExists' = TRUE
            /\ i' = i + 1
            /\ UNCHANGED <<pc, fatal>>
       ELSE /\ Halt("exception")
            /\ UNCHANGED <<dest, destExists, i>>
    /\ UNCHANGED <<format, version, pending, config, configOther, localesDir, localeFiles,
                   log, logFile, extVars, files, json, content, filename, listing, writes,
                   cntVars>>

\* lines 255-257: fs.readdirSync(this.data.dest) for the report
publishReport ==
    /\ pc = "publish_copy"
    /\ i > Len(listing)
    /\ IF destExists
       THEN pc' = "clean2" /\ fatal' = fatal
       ELSE Halt("exception")
    /\ UNCHANGED <<format, version, pending, fsVars, extVars, locVars, cntVars>>

\* line 260
PostClean ==
    /\ pc = "clean2"
    /\ clean
    /\ pc' = "done"
    /\ UNCHANGED <<fatal, format, version, pending, dest, destExists, extVars, locVars, cntVars>>

(***************************************************************************)
(* The thread pool performs a queued fs.mkdir (lines 79, 83) or fs.rename  *)
(* (lines 172, 199).  A failure is at most printed (line 173).             *)
(***************************************************************************)
asyncMkdir ==
    \E op \in pending :
      /\ op.op = "mkdir"
      /\ pending' = pending \ {op}
      /\ IF op.path = "log"
         THEN /\ log' = IF log = "absent" THEN "dir" ELSE log
              /\ UNCHANGED localesDir
         ELSE /\ localesDir' = IF config = "dir" THEN TRUE ELSE localesDir
              /\ UNCHANGED log
      /\ UNCHANGED <<pc, fatal, format, version, config, configOther, localeFiles, logFile,
                     dest, destExists, extVars, locVars, cntVars>>

asyncRename ==
    \E op \in pending :
      /\ op.op = "rename"
      /\ pending' = pending \ {op}
      /\ localeFiles' =
           IF localesDir /\ BaseName(op.path) \in DOMAIN localeFiles
           THEN (BaseName(op.to) :> localeFiles[BaseName(op.path)]) @@
                [n \in DOMAIN localeFiles \ {BaseName(op.path)} |-> localeFiles[n]]
           ELSE localeFiles
      /\ UNCHANGED <<pc, fatal, format, version, config, configOther, localesDir, log,
                     logFile, dest, destExists, extVars, locVars, cntVars>>

Next ==
    \/ PreClean
    \/ CheckFormat
    \/ checkLocaleappGem
    \/ setupProject
    \/ getLocalesMkdirLocales
    \/ getLocalesMkdirLog
    \/ getLocalesOpenLog
    \/ getLocalesPull
    \/ getLocalesRead
    \/ formatJSONLoad
    \/ formatJSONWrite
    \/ formatYML
    \/ formatReturn
    \/ publishList
    \/ publishCopy
    \/ publishReport
    \/ PostClean
    \/ asyncMkdir
    \/ asyncRename

Spec == Init /\ [][Next]_vars

(***************************************************************************)
(* _countEntries on its own, over every document of the bounded family.    *)
(***************************************************************************)
InitCount ==
    /\ InitTask
    /\ format = "yml"
    /\ config = "absent"
    /\ log = "absent"
    /\ ~destExists
    /\ doc \in Documents(MaxDepth)
    /\ count = -1

countEntriesCall ==
    /\ count = -1
    /\ count' = countEntries(doc)
    /\ UNCHANGED <<pc, fatal, format, version, pending, fsVars, extVars, locVars, doc>>

NextCount == countEntriesCall

SpecCount == InitCount /\ [][NextCount]_vars

(***************************************************************************)
(* Properties.                                                             *)
(***************************************************************************)
\* the name of the k-th file the formatter wrote, as the documentation gives it
newName(locale, ext) == ReplaceFirst(locale, "-", "_") \o ext
\* the sub-document pulled under the locale-code key of <locale>.yml
pulledSub(locale) == Get(pulled[locale \o ".yml"].doc, locale)
\* every hyphen of s replaced by an underscore
RECURSIVE ReplaceAll(_, _, _)
ReplaceAll(s, pat, rep) ==
    IF IndexOf(s, pat) = 0 THEN s
    ELSE SubSeq(s, 1, IndexOf(s, pat) - 1) \o rep \o
         ReplaceAll(SubSeq(s, IndexOf(s, pat) + Len(pat), Len(s)), pat, rep)
\* obj has an own property named key
HasKey(obj, key) == \E k \in 1..Len(OwnProperties(obj)) : OwnProperties(obj)[k][1] = key
\* v holds _meta with the three fields
hasMeta(v) ==
    /\ HasKey(v, "_meta")
    /\ \A f \in {"polledAt", "updatedAt", "gem"} : HasKey(Get(v, "_meta"), f)

\* C1: with format json, every file the formatter writes is named
\* <code, first hyphen as underscore>.json and holds a _meta object with
\* polledAt, updatedAt and gem next to the sub-document that was nested under
\* the locale-code key, without the wrapping locale-code key.
C1_JsonOutputHasMeta ==
    format = "json" =>
      \A k \in 1..Len(writes) :
        LET locale == localeAt(k)
            out == writes[k].content.doc
        IN  /\ writes[k].name = LocalesPath \o newName(locale, ".json")
            /\ hasMeta(out)
            /\ \A e \in 1..Len(pulledSub(locale).kv) :
                 Get(out, pulledSub(locale).kv[e][1]) = pulledSub(locale).kv[e][2]
            /\ ~HasKey(out, locale)

\* C2: with format json or js, from the formatter's return until the
\* post-run clean, the working directory holds for every pulled locale the
\* new .json/.js name and not the original .yml name.
C2_OneFilePerLocale ==
    (format \in {"json", "js"} /\ pc \in {"publish_list", "publish_copy", "clean2"}) =>
      \A n \in DOMAIN pulled :
        /\ n \notin DOMAIN localeFiles
        /\ newName(SplitFirst(n, ".yml"), "." \o format) \in DOMAIN localeFiles

\* C3: with an unsupported format the task stops at the format check: no
\* external command has run, no mkdir is queued, neither working directory
\* exists once the pre-clean is over, nothing is written or published.
C3_UnsupportedFormatFailsFast ==
    format \notin {"yml", "yaml", "json", "js"} =>
      /\ pc \in {"clean1", "check_format", "failed"}
      /\ pc = "failed" => fatal = "format"
      /\ calls = <<>>
      /\ pending = {}
      /\ writes = <<>>
      /\ dest = EmptyDir
      /\ pc # "clean1" => (~localesDir /\ log # "dir")
C3_Witness == pc = "failed" /\ fatal = "format" /\ format = "xml"

\* C4: when `localeapp -v` captured nothing, the dependency check fails
\* fatally ('No localeapp gem installed') and no later step runs.
C4_MissingGemHalts ==
    (calls # <<>> /\ version = Str("")) =>
      (pc = "failed" /\ fatal = "gem" /\ calls = <<"localeapp -v">>)

\* C5: after a run that completes, neither config/locales nor log exists.
C5_WorkingDirsGone ==
    pc = "done" => (~localesDir /\ log = "absent" /\ logFile = NoFile)
C5_Witness == pc = "done" /\ pulled # EmptyDir /\ writes # <<>>

\* C6: with format js, every file written is `var translate_<locale> = <JSON>;`
\* with every hyphen of the locale code replaced by an underscore, the JSON
\* being the document the json format produces, _meta included.
C6_JsOutputShape ==
    format = "js" =>
      \A k \in 1..Len(writes) :
        LET locale == localeAt(k)
            out == writes[k].content
        IN  /\ out.pre = "var translate_" \o ReplaceAll(locale, "-", "_") \o " = "
            /\ out.post = ";"
            /\ hasMeta(out.doc)
            /\ \A e \in 1..Len(pulledSub(locale).kv) :
                 Get(out.doc, pulledSub(locale).kv[e][1]) = pulledSub(locale).kv[e][2]

\* C7: the three external commands run at most once each, in the order -v,
\* install, pull.  When install's output begins with `error` the task halts
\* there: pull is not run, no mkdir is queued and no working directory exists.
\* Otherwise the authenticator lets the run go on, and a run that completes
\* has run each of the three commands exactly once.
expectedCalls == <<"localeapp -v", "localeapp install " \o ProjectKey, "localeapp pull">>
beginsWithError(out) == Len(out) >= 5 /\ SubSeq(out, 1, 5) = "error"
RECURSIVE leafCount(_)
leafCount(v) ==
    LET n[k \in 0..Len(v.kv)] ==
          IF k = 0 THEN 0
          ELSE n[k - 1] + (IF v.kv[k][2].t = "map" THEN leafCount(v.kv[k][2]) ELSE 1)
    IN  n[Len(v.kv)]
C8_CountsLeaves == count # -1 => count = leafCount(doc)

\* C9: with format yml or yaml, a run that completes has put in the
\* destination, for every pulled <code>.yml, the same content under the name
\* with the first hyphen as underscore, and nothing under the hyphenated name.
C9_YmlPublishedRenamed ==
    (pc = "done" /\ format \in {"yml", "yaml"}) =>
      \A n \in DOMAIN pulled :
        LET new == newName(SplitFirst(n, ".yml"), ".yml")
        IN  /\ new \in DOMAIN dest
            /\ dest[new] = pulled[n]
            /\ new # n => n \notin DOMAIN dest

\* C10: the pre-run and post-run clean leave the other entries of ./config
\* as they were.
C10_CleanKeepsOtherEntries ==
    [][(pc \in {"clean1", "clean2"}) => (configOther' = configOther)]_vars

====
